---- MODULE Spec2Model ----
(***************************************************************************)
(* Model of the duty dispatcher of a node: Node::handle in                 *)
(* src/node/handle.rs.  One action per NodeDuty branch of the match.  The  *)
(* node's state is the four optional subsystems (chunks, meta_data,        *)
(* transfers, section_funds).  Calls into the routing layer                *)
(* (the network_api) and into the storage / ledger collaborators are      *)
(* inputs of the action that makes them: their results are drawn with \E.  *)
(***************************************************************************)
EXTENDS Integers, Sequences, FiniteSets, TLC

\* ---------------------------------------------------------------- bounds
MaxNodes   == 2     \* node identities (XorName of a node)
MaxWallets == 1     \* wallet public keys
MaxAges    == 2     \* distinct ages live membership can report
MaxAddrs   == 2     \* chunk / data addresses
MaxCredits == 2     \* CreditIds of a churn round
MaxPayments == 1    \* CreditIds of pending payments
MaxPeers   == 2     \* peer Elders supplying churn evidence
MaxKeys    == 2     \* section public keys
MaxPrefixes == 2    \* section prefixes
MaxMsgIds  == 1     \* message ids carried by duties
MaxAmounts == 1     \* credit amounts
EmitCap    == 2     \* cap of the per-credit count of propagate-credit duties
RepeatCap  == 2     \* cap of the count of deliveries of one piece of evidence
MaxEvents  == 2     \* routing events waiting for the translator
MaxRewards == 1     \* entries of the node_rewards map a SynchState carries

Nodes     == 1..MaxNodes
Wallets   == 1..MaxWallets
Ages      == 5..(4 + MaxAges)
Addrs     == 1..MaxAddrs
CreditIds == 1..MaxCredits
PaymentIds == 1..MaxPayments
Peers     == 1..MaxPeers
Keys      == 1..MaxKeys
Prefixes  == 1..MaxPrefixes
MsgIds    == 1..MaxMsgIds
Amounts   == {100 * i : i \in 1..MaxAmounts}

\* ---------------------------------------------------------------- maps
EmptyMap == [x \in {} |-> 0]

MapPut(m, k, v) == [x \in (DOMAIN m) \cup {k} |-> IF x = k THEN v ELSE m[x]]

MapDel(m, k) == [x \in (DOMAIN m) \ {k} |-> m[x]]

\* the elements of a set of numbers in ascending order (BTreeMap iteration)
RECURSIVE SortedSeq(_)
SortedSeq(S) ==
    IF S = {} THEN <<>>
    ELSE LET m == CHOOSE x \in S : \A y \in S : x <= y
         IN  <<m>> \o SortedSeq(S \ {m})

\* ---------------------------------------------------------------- results
Ok(ops) == [ok |-> TRUE, err |-> "", ops |-> ops]

Err(e) == [ok |-> FALSE, err |-> e, ops |-> <<>>]

\* a follow-up duty of the returned NodeDuties list
Op(d, k, i, t) == [duty |-> d, kind |-> k, id |-> i, dst |-> t]

\* MessageId::combine(names): a hash of the concatenated names; modelled as
\* the positional encoding of the name sequence (collision free on the
\* bounded names, order sensitive).
CombineBase == 16

RECURSIVE Combine(_)
Combine(names) ==
    IF names = <<>> THEN 0
    ELSE Combine(SubSeq(names, 1, Len(names) - 1)) * CombineBase + names[Len(names)]

VARIABLES chunks, meta_data, transfers, section_funds, emitted, last,
          delivered, round_credits, elders, net, paid, inbox, translated

\* the node under the dispatcher
node_vars == <<chunks, meta_data, transfers, section_funds, emitted, last>>

\* the evidence handed to one churn process and the CreditIds of its round
feed_vars == <<delivered, round_credits>>

\* a section of Elders, each with its own fields, and the messages between them
section_vars == <<elders, net, paid>>

\* the routing events waiting for the translator and the log of what it
\* returned for the events it processed
event_vars == <<inbox, translated>>

vars == <<chunks, meta_data, transfers, section_funds, emitted, last,
          delivered, round_credits, elders, net, paid, inbox, translated>>

\* ---------------------------------------------------------------- state
ChunksAbsent == [present |-> FALSE, store |-> {}]

\* Chunks::new: an empty chunk store
ChunksNew == [present |-> TRUE, store |-> {}]

NoProcess == [credits |-> {}, stage |-> "None",
              proposals |-> {}, evidence |-> {}]

FundsAbsent == [kind |-> "None", wallets |-> EmptyMap, payments |-> EmptyMap,
                process |-> NoProcess]

KeepingNodeWallets(w, p) ==
    [kind |-> "KeepingNodeWallets", wallets |-> w, payments |-> p,
     process |-> NoProcess]

Churning(proc, w, p) ==
    [kind |-> "Churning", wallets |-> w, payments |-> p, process |-> proc]

\* the node's mutable fields, as one record
Self == [chunks |-> chunks, meta_data |-> meta_data, transfers |-> transfers,
         section_funds |-> section_funds]

\* inputs of a duty, with the fields a duty does not carry left at 0
NoArgs == [node |-> 0, wallet |-> 0, addr |-> 0, id |-> 0, corr |-> 0,
           our_name |-> 0, matches |-> FALSE, newbie |-> FALSE,
           members |-> EmptyMap, credit |-> 0, peer |-> 0, amount |-> 0,
           key |-> 0, prefix |-> 0, collab |-> {}, name |-> "",
           valid |-> FALSE, node_rewards |-> EmptyMap, user_wallets |-> {}]

\* outcome of one call of handle: the fields afterwards and the Result
Out(s, res) == [self |-> s, res |-> res]

\* no evidence feed is recorded
NoFeed == delivered = EmptyMap /\ round_credits = {}

\* no section of Elders is observed
NoSection == elders = EmptyMap /\ net = {} /\ paid = EmptyMap

\* no routing event is waiting or was translated
NoEvents == inbox = <<>> /\ translated = <<>>

NoCall == [duty |-> "Init", args |-> NoArgs, res |-> Ok(<<>>),
           after_level_down |-> FALSE, had_wallet |-> FALSE,
           had_evidence |-> FALSE]

Init ==
    /\ chunks = ChunksNew
    /\ meta_data = FALSE
    /\ transfers = FALSE
    /\ section_funds = FundsAbsent
    /\ emitted = [c \in CreditIds |-> 0]
    /\ last = NoCall
    /\ NoFeed
    /\ NoSection
    /\ NoEvents

\* the propagate-credit duties for CreditId c in a returned duty list
Propagated(ops, c) ==
    Cardinality({i \in DOMAIN ops : ops[i].kind = "PropagateCredit" /\ ops[i].id = c})

\* one completed call of handle(duty).  last records the call: the duty, its
\* inputs, the Result, whether the call before it was a LevelDown that
\* returned Ok, whether the node the duty names had a wallet entry before
\* the call, and whether an open churn round held evidence before the call.  emitted counts, per CreditId, the propagate-credit duties
\* returned since the current churn round (RewardProcess) was created.
Returned(duty, args, out) ==
    /\ chunks' = out.self.chunks
    /\ meta_data' = out.self.meta_data
    /\ transfers' = out.self.transfers
    /\ section_funds' = out.self.section_funds
    /\ emitted' =
          IF duty = "SectionSplit" /\ ~args.newbie /\ out.res.ok
          THEN [c \in CreditIds |-> 0]
          ELSE IF \A i \in DOMAIN out.res.ops : out.res.ops[i].kind # "PropagateCredit"
          THEN emitted
          ELSE [c \in CreditIds |->
                   IF emitted[c] + Propagated(out.res.ops, c) > EmitCap
                   THEN EmitCap ELSE emitted[c] + Propagated(out.res.ops, c)]
    /\ last' = [duty |-> duty, args |-> args, res |-> out.res,
                after_level_down |-> (last.duty = "LevelDown" /\ last.res.ok),
                had_wallet |-> (args.node \in DOMAIN section_funds.wallets),
                had_evidence |-> (section_funds.kind = "Churning"
                                  /\ section_funds.process.evidence # {})]

\* a call of handle on the node alone
Handled(duty, args, out) ==
    /\ Returned(duty, args, out)
    /\ UNCHANGED <<feed_vars, section_vars, event_vars>>

\* ---------------------------------------------------------------- getters
\* each returns "" for Ok(&mut subsystem) and the error name for Err
\* mutant: the getter reports the error of another subsystem
get_chunks_WrongError(s) == IF s.chunks.present THEN "" ELSE "NoMetadata"

get_chunks(s) == IF s.chunks.present THEN "" ELSE "NoChunks"

get_metadata(s) == IF s.meta_data THEN "" ELSE "NoMetadata"

get_transfers(s) == IF s.transfers THEN "" ELSE "NoTransfers"

get_section_funds(s) ==
    IF s.section_funds.kind # "None" THEN "" ELSE "NoSectionFunds"

get_churning_funds(s) ==
    IF s.section_funds.kind = "Churning" THEN "" ELSE "NotChurningFunds"

\* ---------------------------------------------------------------- levelling
\* level_up: tears down the Adult subsystem set and constructs metadata,
\* transfers and section funds from scratch; a failed construction leaves
\* the node as it was.
level_up(s, ok) ==
    IF ok
    THEN Out([chunks |-> ChunksAbsent, meta_data |-> TRUE, transfers |-> TRUE,
              section_funds |-> KeepingNodeWallets(EmptyMap, EmptyMap)],
             Ok(<<>>))
    ELSE Out(s, Err("Collaborator"))

\* NodeDuty::Genesis
GenesisStep(ok) == level_up(Self, ok)

HandleGenesis ==
    \E ok \in BOOLEAN : Handled("Genesis", NoArgs, GenesisStep(ok))

\* Prefix::name and XorName::from(PublicKey): the names MessageId::combine hashes
PrefixName(p) == 4 * p

KeyName(k) == 8 + k

\* update_replicas: refreshes the replica info of the transfers subsystem
update_replicas(s, ok) ==
    IF get_transfers(s) # "" THEN Err(get_transfers(s))
    ELSE IF ok THEN Ok(<<>>) ELSE Err("Collaborator")

push_state(prefix, msg_id) == Op("Send", "PushState", msg_id, prefix)

\* mutant: the message id is derived from the section key alone
EldersChangedStep_KeyOnly(our_key, our_prefix, newbie, ok) ==
    IF newbie
    THEN level_up(Self, ok)
    ELSE IF ~update_replicas(Self, ok).ok
         THEN Out(Self, update_replicas(Self, ok))
         ELSE Out(Self,
                  Ok(<<push_state(our_prefix, Combine(<<KeyName(our_key)>>))>>))

\* NodeDuty::EldersChanged
EldersChangedStep(our_key, our_prefix, newbie, ok) ==
    IF newbie
    THEN level_up(Self, ok)
    ELSE IF ~update_replicas(Self, ok).ok
         THEN Out(Self, update_replicas(Self, ok))
         ELSE Out(Self,
                  Ok(<<push_state(our_prefix,
                                  Combine(<<PrefixName(our_prefix), KeyName(our_key)>>))>>))

HandleEldersChanged ==
    \E k \in Keys, p \in Prefixes, newbie \in BOOLEAN, ok \in BOOLEAN :
          Handled("EldersChanged",
                  [NoArgs EXCEPT !.key = k, !.prefix = p, !.newbie = newbie],
                  EldersChangedStep(k, p, newbie, ok))

\* mutant: the demotion keeps the section funds and the round in them
LevelDownStep_KeepsFunds(newOk) ==
    LET cleared == [Self EXCEPT !.meta_data = FALSE, !.transfers = FALSE]
    IN  IF newOk
        THEN Out([cleared EXCEPT !.chunks = ChunksNew], Ok(<<>>))
        ELSE Out(cleared, Err("Collaborator"))

\* NodeDuty::LevelDown: the three Elder fields are cleared before Chunks::new
\* is awaited, and its error is returned with ?
LevelDownStep(newOk) ==
    LET cleared == [Self EXCEPT !.meta_data = FALSE, !.transfers = FALSE,
                                !.section_funds = FundsAbsent]
    IN  IF newOk
        THEN Out([cleared EXCEPT !.chunks = ChunksNew], Ok(<<>>))
        ELSE Out(cleared, Err("Collaborator"))

HandleLevelDown ==
    \E newOk \in BOOLEAN : Handled("LevelDown", NoArgs, LevelDownStep(newOk))

\* Node::synch_state(node_rewards, user_wallets): returns the one duty it
\* built (NodeDuty::NoOp) or its error.  The role is mutated by the role
\* transitions alone and registry entries are added by SetNodeWallet alone:
\* the fields are left as they were.
synch_state(s, node_rewards, user_wallets, ok) ==
    IF ok THEN Out(s, Ok(<<Op("NoOp", "SynchState", 0, 0)>>))
    ELSE Out(s, Err("Collaborator"))

\* NodeDuty::SynchState: the duty synch_state returns, alone in the list, or
\* its error, returned with ?
SynchStateStep(node_rewards, user_wallets, ok) ==
    IF synch_state(Self, node_rewards, user_wallets, ok).res.ok
    THEN Out(synch_state(Self, node_rewards, user_wallets, ok).self,
             Ok(<<synch_state(Self, node_rewards, user_wallets, ok).res.ops[1]>>))
    ELSE synch_state(Self, node_rewards, user_wallets, ok)

\* node_rewards maps node names to (age, wallet key); user_wallets is the set
\* of wallet keys whose history the duty carries
HandleSynchState ==
    \E M \in {X \in SUBSET Nodes : Cardinality(X) <= MaxRewards},
       user_wallets \in SUBSET Wallets, ok \in BOOLEAN :
       \E node_rewards \in [M -> [age : Ages, wallet : Wallets]] :
          Handled("SynchState",
                  [NoArgs EXCEPT !.node_rewards = node_rewards,
                                 !.user_wallets = user_wallets],
                  SynchStateStep(node_rewards, user_wallets, ok))

\* ---------------------------------------------------------------- churn
\* evidence needed per CreditId: a majority of the peer Elders
Quorum == (MaxPeers \div 2) + 1

RewardProcessNew(credits) ==
    [credits |-> credits, stage |-> "AwaitingProposals",
     proposals |-> {}, evidence |-> {}]

Agreed(credits, evidence) ==
    \A c \in credits : Cardinality({q \in Peers : <<c, q>> \in evidence}) >= Quorum

\* RewardProcess::receive_churn_proposal: records the peer's proposal; moves
\* to Accumulating once a quorum of peers proposed, never to Completed
receive_churn_proposal(proc, peer, valid) ==
    IF ~valid THEN [process |-> proc, res |-> Err("Protocol")]
    ELSE IF proc.stage # "AwaitingProposals"
    THEN [process |-> proc, res |-> Ok(<<Op("NoOp", "Proposal", 0, peer)>>)]
    ELSE LET props == proc.proposals \cup {peer}
         IN  [process |->
                 IF Cardinality(props) >= Quorum
                 THEN [proc EXCEPT !.stage = "Accumulating", !.proposals = {}]
                 ELSE [proc EXCEPT !.proposals = props],
              res |-> Ok(<<Op("Send", "RewardAccumulation", 0, peer)>>)]

\* mutant: the evidence of a CreditId is overwritten by the latest peer's
receive_wallet_accumulation_LastWins(proc, credit, peer, valid) ==
    IF ~valid \/ credit \notin proc.credits
    THEN [process |-> proc, res |-> Err("Protocol")]
    ELSE IF proc.stage = "Completed"
    THEN [process |-> proc, res |-> Ok(<<Op("NoOp", "Accumulated", credit, peer)>>)]
    ELSE LET ev == {x \in proc.evidence : x[1] # credit} \cup {<<credit, peer>>}
         IN  [process |->
                 IF Agreed(proc.credits, ev)
                 THEN [proc EXCEPT !.stage = "Completed", !.proposals = {},
                                   !.evidence = {}]
                 ELSE [proc EXCEPT !.stage = "Accumulating", !.proposals = {},
                                   !.evidence = ev],
              res |-> Ok(<<Op("NoOp", "Accumulated", credit, peer)>>)]

\* mutant: evidence a peer repeats is counted once more, as another peer's
receive_wallet_accumulation_CountsTwice(proc, credit, peer, valid) ==
    IF ~valid \/ credit \notin proc.credits
    THEN [process |-> proc, res |-> Err("Protocol")]
    ELSE IF proc.stage = "Completed"
    THEN [process |-> proc, res |-> Ok(<<Op("NoOp", "Accumulated", credit, peer)>>)]
    ELSE LET ev == IF <<credit, peer>> \in proc.evidence
                   THEN proc.evidence \cup {<<credit, q>> : q \in Peers}
                   ELSE proc.evidence \cup {<<credit, peer>>}
         IN  [process |->
                 IF Agreed(proc.credits, ev)
                 THEN [proc EXCEPT !.stage = "Completed", !.proposals = {},
                                   !.evidence = {}]
                 ELSE [proc EXCEPT !.stage = "Accumulating", !.proposals = {},
                                   !.evidence = ev],
              res |-> Ok(<<Op("NoOp", "Accumulated", credit, peer)>>)]

\* RewardProcess::receive_wallet_accumulation: merges one piece of evidence
\* (a set union: duplicates do not count twice); Completed once every
\* CreditId of the round has quorum evidence
receive_wallet_accumulation(proc, credit, peer, valid) ==
    IF ~valid \/ credit \notin proc.credits
    THEN [process |-> proc, res |-> Err("Protocol")]
    ELSE IF proc.stage = "Completed"
    THEN [process |-> proc, res |-> Ok(<<Op("NoOp", "Accumulated", credit, peer)>>)]
    ELSE LET ev == proc.evidence \cup {<<credit, peer>>}
         IN  [process |->
                 IF Agreed(proc.credits, ev)
                 THEN [proc EXCEPT !.stage = "Completed", !.proposals = {},
                                   !.evidence = {}]
                 ELSE [proc EXCEPT !.stage = "Accumulating", !.proposals = {},
                                   !.evidence = ev],
              res |-> Ok(<<Op("NoOp", "Accumulated", credit, peer)>>)]

\* Node::propagate_credits: one Send per finalized proof, in CreditId order
propagate_credits(credit_proofs) ==
    [i \in 1..Cardinality(credit_proofs) |->
        Op("Send", "PropagateCredit", SortedSeq(credit_proofs)[i],
           SortedSeq(credit_proofs)[i])]

\* begin_split_as_newbie: a fresh Elder bootstrap in the new section
begin_split_as_newbie(s, ok) == level_up(s, ok)

\* mutant: the new round starts from an empty payments map
begin_split_as_oldie_DropsPayments(s, credits, our_prefix, our_key, ok) ==
    IF get_transfers(s) # "" THEN Out(s, Err(get_transfers(s)))
    ELSE IF get_section_funds(s) # "" THEN Out(s, Err(get_section_funds(s)))
    ELSE IF ~ok THEN Out(s, Err("Collaborator"))
    ELSE Out([s EXCEPT !.section_funds =
                 Churning(RewardProcessNew(credits),
                          s.section_funds.wallets, EmptyMap)],
             Ok(<<push_state(our_prefix,
                             Combine(<<PrefixName(our_prefix), KeyName(our_key)>>)),
                  Op("Send", "RewardProposal", 0, our_prefix)>>))

\* begin_split_as_oldie: starts a new RewardProcess for the credits the two
\* sections renegotiate; the wallets and the pending payments are kept
begin_split_as_oldie(s, credits, our_prefix, our_key, ok) ==
    IF get_transfers(s) # "" THEN Out(s, Err(get_transfers(s)))
    ELSE IF get_section_funds(s) # "" THEN Out(s, Err(get_section_funds(s)))
    ELSE IF ~ok THEN Out(s, Err("Collaborator"))
    ELSE Out([s EXCEPT !.section_funds =
                 Churning(RewardProcessNew(credits),
                          s.section_funds.wallets, s.section_funds.payments)],
             Ok(<<push_state(our_prefix,
                             Combine(<<PrefixName(our_prefix), KeyName(our_key)>>)),
                  Op("Send", "RewardProposal", 0, our_prefix)>>))

\* NodeDuty::SectionSplit
SectionSplitStep(our_key, our_prefix, newbie, credits, ok) ==
    IF newbie
    THEN Out(begin_split_as_newbie(Self, ok).self,
             IF begin_split_as_newbie(Self, ok).res.ok
             THEN Ok(<<>>) ELSE begin_split_as_newbie(Self, ok).res)
    ELSE begin_split_as_oldie(Self, credits, our_prefix, our_key, ok)

HandleSectionSplit ==
    \E k \in Keys, p \in Prefixes, newbie \in BOOLEAN, ok \in BOOLEAN,
       n \in CreditIds :
          Handled("SectionSplit",
                  [NoArgs EXCEPT !.key = k, !.prefix = p, !.newbie = newbie],
                  SectionSplitStep(k, p, newbie, 1..n, ok))

\* the ReceiveRewardProposal branch of handle on a node with fields s
ReceiveRewardProposalOn(s, peer, valid) ==
    IF get_churning_funds(s) = ""
    THEN LET r == receive_churn_proposal(s.section_funds.process, peer, valid)
         IN  Out([s EXCEPT !.section_funds.process = r.process], r.res)
    ELSE Out(s, Ok(<<>>))

\* mutant: a proposal that completes the quorum of proposals ends the round:
\* the funds are switched and the credits propagated
ReceiveRewardProposalStep_Switches(peer, valid) ==
    IF get_churning_funds(Self) = ""
    THEN LET r == receive_churn_proposal(section_funds.process, peer, valid)
         IN  IF r.res.ok /\ r.process.stage = "Accumulating"
             THEN Out([Self EXCEPT !.section_funds =
                          KeepingNodeWallets(section_funds.wallets,
                                             section_funds.payments)],
                      Ok(r.res.ops \o propagate_credits(r.process.credits)))
             ELSE Out([Self EXCEPT !.section_funds.process = r.process], r.res)
    ELSE Out(Self, Ok(<<>>))

\* NodeDuty::ReceiveRewardProposal
ReceiveRewardProposalStep(peer, valid) ==
    ReceiveRewardProposalOn(Self, peer, valid)

HandleReceiveRewardProposal ==
    \E peer \in Peers, valid \in BOOLEAN :
          Handled("ReceiveRewardProposal", [NoArgs EXCEPT !.peer = peer],
                  ReceiveRewardProposalStep(peer, valid))

\* the ReceiveRewardAccumulation branch of handle on a node with fields s.
\* propOk and keyOk are the results of propagate_credits and of
\* network_api.section_public_key, both returned with ?
ReceiveRewardAccumulationOn(s, credit, peer, valid, propOk, keyOk) ==
    IF get_churning_funds(s) = ""
    THEN LET r    == receive_wallet_accumulation(s.section_funds.process,
                                                 credit, peer, valid)
             s1   == [s EXCEPT !.section_funds.process = r.process]
         IN  IF ~r.res.ok THEN Out(s1, r.res)
             ELSE IF r.process.stage = "Completed"
             THEN IF ~propOk THEN Out(s1, Err("Collaborator"))
                  ELSE LET s2 == [s1 EXCEPT !.section_funds =
                                    KeepingNodeWallets(s1.section_funds.wallets,
                                                       s1.section_funds.payments)]
                       IN  IF ~keyOk THEN Out(s2, Err("Collaborator"))
                           ELSE Out(s2, Ok(r.res.ops \o
                                           propagate_credits(r.process.credits)))
             ELSE Out(s1, r.res)
    ELSE Out(s, Ok(<<>>))

\* mutant: the Completed branch returns the duties without replacing
\* SectionFunds::Churning
ReceiveRewardAccumulationStep_NoSwitch(credit, peer, valid, propOk, keyOk) ==
    IF get_churning_funds(Self) = ""
    THEN LET r    == receive_wallet_accumulation(section_funds.process,
                                                 credit, peer, valid)
             s1   == [Self EXCEPT !.section_funds.process = r.process]
         IN  IF ~r.res.ok THEN Out(s1, r.res)
             ELSE IF r.process.stage = "Completed"
             THEN IF ~propOk \/ ~keyOk THEN Out(s1, Err("Collaborator"))
                  ELSE Out(s1, Ok(r.res.ops \o propagate_credits(r.process.credits)))
             ELSE Out(s1, r.res)
    ELSE Out(Self, Ok(<<>>))

\* NodeDuty::ReceiveRewardAccumulation
ReceiveRewardAccumulationStep(credit, peer, valid, propOk, keyOk) ==
    ReceiveRewardAccumulationOn(Self, credit, peer, valid, propOk, keyOk)

\* propagate_credits and section_public_key are only called in the
\* Completed branch: their results are inputs of those calls alone
CompletesOn(s, credit, peer, valid) ==
    /\ get_churning_funds(s) = ""
    /\ receive_wallet_accumulation(s.section_funds.process, credit, peer,
                                   valid).res.ok
    /\ receive_wallet_accumulation(s.section_funds.process, credit, peer,
                                   valid).process.stage = "Completed"

Completes(credit, peer, valid) == CompletesOn(Self, credit, peer, valid)

HandleReceiveRewardAccumulation ==
    \E c \in CreditIds, peer \in Peers, valid \in BOOLEAN :
    \E propOk \in (IF Completes(c, peer, valid) THEN BOOLEAN ELSE {TRUE}) :
    \E keyOk \in (IF Completes(c, peer, valid) /\ propOk THEN BOOLEAN ELSE {TRUE}) :
          Handled("ReceiveRewardAccumulation",
                  [NoArgs EXCEPT !.credit = c, !.peer = peer, !.valid = valid],
                  ReceiveRewardAccumulationStep(c, peer, valid, propOk, keyOk))

\* ---------------------------------------------------------------- reward reg
\* SectionFunds::set_node_wallet / remove_node_wallet / add_payment
set_node_wallet(funds, node_id, wallet_id, age) ==
    [funds EXCEPT !.wallets = MapPut(@, node_id, [wallet |-> wallet_id, age |-> age])]

remove_node_wallet(funds, name) == [funds EXCEPT !.wallets = MapDel(@, name)]

add_payment(funds, credit, amount) ==
    [funds EXCEPT !.payments = MapPut(@, credit, amount)]

\* mutant: a node that is not a member gets an entry with the lowest age
SetNodeWalletStep_NoMembershipCheck(wallet_id, node_id, members) ==
    IF get_section_funds(Self) # "" THEN Out(Self, Err(get_section_funds(Self)))
    ELSE Out([Self EXCEPT !.section_funds =
                 set_node_wallet(@, node_id, wallet_id,
                                 IF node_id \in DOMAIN members THEN members[node_id]
                                 ELSE 5)],
             Ok(<<>>))

\* mutant: an existing entry keeps the age it was first written with
SetNodeWalletStep_StaleAge(wallet_id, node_id, members) ==
    IF get_section_funds(Self) # "" THEN Out(Self, Err(get_section_funds(Self)))
    ELSE IF node_id \in DOMAIN members
    THEN Out([Self EXCEPT !.section_funds =
                 set_node_wallet(@, node_id, wallet_id,
                                 IF node_id \in DOMAIN section_funds.wallets
                                 THEN section_funds.wallets[node_id].age
                                 ELSE members[node_id])],
             Ok(<<>>))
    ELSE Out(Self, Err("NodeNotFoundForReward"))

\* NodeDuty::SetNodeWallet; members is the result of network_api.our_members
SetNodeWalletStep(wallet_id, node_id, members) ==
    IF get_section_funds(Self) # "" THEN Out(Self, Err(get_section_funds(Self)))
    ELSE IF node_id \in DOMAIN members
    THEN Out([Self EXCEPT !.section_funds =
                 set_node_wallet(@, node_id, wallet_id, members[node_id])],
             Ok(<<>>))
    ELSE Out(Self, Err("NodeNotFoundForReward"))

HandleSetNodeWallet ==
    \E w \in Wallets, n \in Nodes, M \in SUBSET Nodes :
       \E members \in [M -> Ages] :
          Handled("SetNodeWallet",
                  [NoArgs EXCEPT !.wallet = w, !.node = n, !.members = members],
                  SetNodeWalletStep(w, n, members))

\* NodeDuty::GetNodeWalletKey
GetNodeWalletKeyStep(node_name) == Out(Self, Ok(<<>>))

HandleGetNodeWalletKey ==
    \E n \in Nodes :
          Handled("GetNodeWalletKey", [NoArgs EXCEPT !.node = n],
                  GetNodeWalletKeyStep(n))

\* Metadata::trigger_chunk_replication(name): one replication duty per
\* address the departed node held; held is what the metadata store reports
trigger_chunk_replication(name, held) ==
    [i \in 1..Cardinality(held) |->
        Op("SendToNodes", "ReplicateChunk", SortedSeq(held)[i], name)]

\* mutant: the wallet entry of the lost member is not removed
ProcessLostMemberStep_NoRemove(name, age, held, trigOk) ==
    IF get_section_funds(Self) # "" THEN Out(Self, Err(get_section_funds(Self)))
    ELSE IF get_metadata(Self) # "" THEN Out(Self, Err(get_metadata(Self)))
    ELSE IF ~trigOk THEN Out(Self, Err("Collaborator"))
    ELSE Out(Self, Ok(trigger_chunk_replication(name, held)))

\* NodeDuty::ProcessLostMember
ProcessLostMemberStep(name, age, held, trigOk) ==
    IF get_section_funds(Self) # "" THEN Out(Self, Err(get_section_funds(Self)))
    ELSE LET s1 == [Self EXCEPT !.section_funds = remove_node_wallet(@, name)]
         IN  IF get_metadata(s1) # "" THEN Out(s1, Err(get_metadata(s1)))
             ELSE IF ~trigOk THEN Out(s1, Err("Collaborator"))
             ELSE Out(s1, Ok(trigger_chunk_replication(name, held)))

HandleProcessLostMember ==
    \E n \in Nodes, age \in Ages, trigOk \in BOOLEAN :
    \E held \in (IF trigOk THEN SUBSET Addrs ELSE {{}}) :
          Handled("ProcessLostMember",
                  [NoArgs EXCEPT !.node = n, !.collab = held],
                  ProcessLostMemberStep(n, age, held, trigOk))

\* NodeDuty::AddPayment
AddPaymentStep(credit, amount) ==
    IF get_section_funds(Self) # "" THEN Out(Self, Err(get_section_funds(Self)))
    ELSE Out([Self EXCEPT !.section_funds = add_payment(@, credit, amount)],
             Ok(<<>>))

HandleAddPayment ==
    \E c \in PaymentIds, a \in Amounts :
          Handled("AddPayment", [NoArgs EXCEPT !.credit = c, !.amount = a],
                  AddPaymentStep(c, a))

\* ---------------------------------------------------------------- transfers
\* the transfer duties: get_transfers()? and then one call of the ledger
TransferDuties ==
    {"GetTransferReplicaEvents", "PropagateTransfer", "ValidateClientTransfer",
     "SimulatePayout", "GetTransfersHistory", "GetBalance", "GetStoreCost",
     "RegisterTransfer", "ProcessDataPayment", "IncrementFullNodeCount"}

\* GetStoreCost returns the ledger's duties without ?; IncrementFullNodeCount
\* returns no duty
TransferDutyStep(duty, msg_id, ok) ==
    IF get_transfers(Self) # "" THEN Out(Self, Err(get_transfers(Self)))
    ELSE IF duty = "GetStoreCost" THEN Out(Self, Ok(<<Op("Send", duty, msg_id, 0)>>))
    ELSE IF ~ok THEN Out(Self, Err("Collaborator"))
    ELSE IF duty = "IncrementFullNodeCount" THEN Out(Self, Ok(<<>>))
    ELSE Out(Self, Ok(<<Op("Send", duty, msg_id, 0)>>))

HandleTransferDuty ==
    \E d \in TransferDuties, m \in MsgIds :
    \E ok \in (IF get_transfers(Self) = "" /\ d # "GetStoreCost"
               THEN BOOLEAN ELSE {TRUE}) :
          Handled(d, [NoArgs EXCEPT !.id = m], TransferDutyStep(d, m, ok))

\* ---------------------------------------------------------------- chunks
forward(kind, msg_id, data_section_addr) ==
    Op("Send", kind, msg_id, data_section_addr)

\* NodeDuty::ReadChunk; matches is our_prefix().matches(dst_address), full
\* is whether check_storage reports the store as nearly full
ReadChunkStep(addr, msg_id, matches, readOk, storOk, full) ==
    IF matches
    THEN IF get_chunks(Self) # "" THEN Out(Self, Err(get_chunks(Self)))
         ELSE IF ~readOk \/ ~storOk THEN Out(Self, Err("Collaborator"))
         ELSE Out(Self,
                  Ok(<<Op("Send",
                          IF addr \in chunks.store THEN "ChunkFound" ELSE "NoSuchChunk",
                          msg_id, addr)>>
                     \o (IF full THEN <<Op("ReachingMaxCapacity", "", 0, 0)>>
                         ELSE <<>>)))
    ELSE Out(Self, Ok(<<forward("NodeQuery::Chunks", msg_id, addr)>>))

HandleReadChunk ==
    \E a \in Addrs, m \in MsgIds, matches \in BOOLEAN :
    \E readOk \in (IF matches /\ get_chunks(Self) = "" THEN BOOLEAN ELSE {TRUE}) :
    \E storOk \in (IF matches /\ get_chunks(Self) = "" /\ readOk
                   THEN BOOLEAN ELSE {TRUE}) :
    \E full \in (IF matches /\ get_chunks(Self) = "" /\ readOk /\ storOk
                 THEN BOOLEAN ELSE {FALSE}) :
          Handled("ReadChunk",
                  [NoArgs EXCEPT !.addr = a, !.id = m, !.matches = matches],
                  ReadChunkStep(a, m, matches, readOk, storOk, full))

\* NodeDuty::WriteChunk
WriteChunkStep(addr, msg_id, ok) ==
    IF get_chunks(Self) # "" THEN Out(Self, Err(get_chunks(Self)))
    ELSE IF ~ok THEN Out(Self, Err("Collaborator"))
    ELSE Out([Self EXCEPT !.chunks.store = @ \cup {addr}],
             Ok(<<Op("Send", "ChunkWritten", msg_id, addr)>>))

\* matches is whether our prefix matches the address written; the branch
\* never asks, the call is recorded with it
HandleWriteChunk ==
    \E a \in Addrs, m \in MsgIds, matches \in BOOLEAN :
    \E ok \in (IF get_chunks(Self) = "" THEN BOOLEAN ELSE {TRUE}) :
          Handled("WriteChunk",
                  [NoArgs EXCEPT !.addr = a, !.id = m, !.matches = matches],
                  WriteChunkStep(a, m, ok))

\* NodeDuty::ReplicateChunk
ReplicateChunkStep(addr, id, ok) ==
    IF get_chunks(Self) # "" THEN Out(Self, Err(get_chunks(Self)))
    ELSE IF ~ok THEN Out(Self, Err("Collaborator"))
    ELSE Out(Self, Ok(<<Op("SendToNodes", "GetChunk", id, addr)>>))

HandleReplicateChunk ==
    \E a \in Addrs, m \in MsgIds :
    \E ok \in (IF get_chunks(Self) = "" THEN BOOLEAN ELSE {TRUE}) :
          Handled("ReplicateChunk", [NoArgs EXCEPT !.addr = a, !.id = m],
                  ReplicateChunkStep(a, m, ok))

\* NodeDuty::GetChunkForReplication
GetChunkForReplicationStep(addr, id, new_holder, ok) ==
    IF get_chunks(Self) # "" THEN Out(Self, Err(get_chunks(Self)))
    ELSE IF ~ok \/ addr \notin chunks.store THEN Out(Self, Err("Collaborator"))
    ELSE Out(Self, Ok(<<Op("Send", "GiveChunk", id, new_holder)>>))

HandleGetChunkForReplication ==
    \E a \in Addrs, m \in MsgIds, h \in Nodes :
    \E ok \in (IF get_chunks(Self) = "" THEN BOOLEAN ELSE {TRUE}) :
          Handled("GetChunkForReplication",
                  [NoArgs EXCEPT !.addr = a, !.id = m, !.node = h],
                  GetChunkForReplicationStep(a, m, h, ok))

\* the correlation ids a StoreChunkForReplication duty can carry
CorrelationIds ==
    {Combine(<<a, n>>) : a \in Addrs, n \in Nodes} \cup {0}

\* mutant: the chunk is stored without comparing the ids
StoreChunkForReplicationStep_NoCheck(addr, correlation_id, our_name, ok) ==
    IF get_chunks(Self) # "" THEN Out(Self, Err(get_chunks(Self)))
    ELSE IF ~ok THEN Out(Self, Err("Collaborator"))
    ELSE Out([Self EXCEPT !.chunks.store = @ \cup {addr}],
             Ok(<<Op("NoOp", "ChunkStored", correlation_id, addr)>>))

\* NodeDuty::StoreChunkForReplication; our_name is network_api.our_name()
StoreChunkForReplicationStep(addr, correlation_id, our_name, ok) ==
    IF Combine(<<addr, our_name>>) = correlation_id
    THEN IF get_chunks(Self) # "" THEN Out(Self, Err(get_chunks(Self)))
         ELSE IF ~ok THEN Out(Self, Err("Collaborator"))
         ELSE Out([Self EXCEPT !.chunks.store = @ \cup {addr}],
                  Ok(<<Op("NoOp", "ChunkStored", correlation_id, addr)>>))
    ELSE Out(Self, Ok(<<>>))

HandleStoreChunkForReplication ==
    \E a \in Addrs, c \in CorrelationIds, n \in Nodes :
    \E ok \in (IF Combine(<<a, n>>) = c /\ get_chunks(Self) = ""
               THEN BOOLEAN ELSE {TRUE}) :
          Handled("StoreChunkForReplication",
                  [NoArgs EXCEPT !.addr = a, !.corr = c, !.our_name = n],
                  StoreChunkForReplicationStep(a, c, n, ok))

\* ---------------------------------------------------------------- data
\* NodeDuty::ProcessRead
ProcessReadStep(addr, id, matches, ok) ==
    IF matches
    THEN IF get_metadata(Self) # "" THEN Out(Self, Err(get_metadata(Self)))
         ELSE IF ~ok THEN Out(Self, Err("Collaborator"))
         ELSE Out(Self, Ok(<<Op("Send", "QueryResponse", id, addr)>>))
    ELSE Out(Self, Ok(<<forward("NodeQuery::Metadata", id, addr)>>))

HandleProcessRead ==
    \E a \in Addrs, m \in MsgIds, matches \in BOOLEAN :
    \E ok \in (IF matches /\ get_metadata(Self) = "" THEN BOOLEAN ELSE {TRUE}) :
          Handled("ProcessRead",
                  [NoArgs EXCEPT !.addr = a, !.id = m, !.matches = matches],
                  ProcessReadStep(a, m, matches, ok))

\* NodeDuty::ProcessWrite
ProcessWriteStep(addr, id, ok) ==
    IF get_metadata(Self) # "" THEN Out(Self, Err(get_metadata(Self)))
    ELSE IF ~ok THEN Out(Self, Err("Collaborator"))
    ELSE Out(Self, Ok(<<Op("Send", "CmdResponse", id, addr)>>))

\* matches is whether our prefix matches the address written; the branch
\* never asks, the call is recorded with it
HandleProcessWrite ==
    \E a \in Addrs, m \in MsgIds, matches \in BOOLEAN :
    \E ok \in (IF get_metadata(Self) = "" THEN BOOLEAN ELSE {TRUE}) :
          Handled("ProcessWrite",
                  [NoArgs EXCEPT !.addr = a, !.id = m, !.matches = matches],
                  ProcessWriteStep(a, m, ok))

\* ---------------------------------------------------------------- misc
\* duties that only call the routing layer and touch no subsystem:
\* Send, SendToNodes, SetNodeJoinsAllowed return no duty; GetSectionElders
\* and ReachingMaxCapacity return the one duty the call built
NetworkDuties ==
    {"Send", "SendToNodes", "SetNodeJoinsAllowed", "GetSectionElders",
     "ReachingMaxCapacity"}

NetworkDutyStep(duty, ok) ==
    IF ~ok THEN Out(Self, Err("Collaborator"))
    ELSE IF duty \in {"GetSectionElders", "ReachingMaxCapacity"}
    THEN Out(Self, Ok(<<Op("Send", duty, 0, 0)>>))
    ELSE Out(Self, Ok(<<>>))

HandleNetworkDuty ==
    \E d \in NetworkDuties, ok \in BOOLEAN :
          Handled(d, NoArgs, NetworkDutyStep(d, ok))

\* NodeDuty::NoOp
NoOpStep == Out(Self, Ok(<<>>))

HandleNoOp == Handled("NoOp", NoArgs, NoOpStep)

Next ==
    \/ HandleGenesis
    \/ HandleEldersChanged
    \/ HandleSectionSplit
    \/ HandleReceiveRewardProposal
    \/ HandleReceiveRewardAccumulation
    \/ HandleSetNodeWallet
    \/ HandleGetNodeWalletKey
    \/ HandleProcessLostMember
    \/ HandleSynchState
    \/ HandleLevelDown
    \/ HandleTransferDuty
    \/ HandleReadChunk
    \/ HandleWriteChunk
    \/ HandleNetworkDuty
    \/ HandleProcessRead
    \/ HandleProcessWrite
    \/ HandleAddPayment
    \/ HandleReplicateChunk
    \/ HandleGetChunkForReplication
    \/ HandleStoreChunkForReplication
    \/ HandleNoOp

Spec == Init /\ [][Next]_vars

\* ---------------------------------------------------------------- evidence feed
\* One churn process fed with accumulation evidence in every order and with
\* repetitions, through handle(ReceiveRewardAccumulation), proposals
\* arriving in between.  A piece of evidence is (CreditId, peer, whether the
\* ledger accepts it); delivered counts the deliveries of each piece.
Evidence == CreditIds \X Peers \X BOOLEAN

\* the (CreditId, peer) pairs of the accepted evidence among a set of pieces
ValidOf(D) == {<<e[1], e[2]>> : e \in {x \in D : x[3]}}

\* an Elder that has just begun a round for the credits 1..n, as the oldie
\* side of a split leaves it, holding one pending payment
FeedInit ==
    /\ chunks = ChunksAbsent
    /\ meta_data = TRUE
    /\ transfers = TRUE
    /\ \E n \in CreditIds, a \in Amounts :
          /\ section_funds = Churning(RewardProcessNew(1..n), EmptyMap,
                                      MapPut(EmptyMap, 1, a))
          /\ round_credits = 1..n
    /\ emitted = [c \in CreditIds |-> 0]
    /\ last = NoCall
    /\ delivered = EmptyMap
    /\ NoSection
    /\ NoEvents

DeliverAccumulation ==
    \E e \in Evidence :
    \E propOk \in (IF Completes(e[1], e[2], e[3]) THEN BOOLEAN ELSE {TRUE}) :
    \E keyOk \in (IF Completes(e[1], e[2], e[3]) /\ propOk
                  THEN BOOLEAN ELSE {TRUE}) :
       /\ Returned("ReceiveRewardAccumulation",
                   [NoArgs EXCEPT !.credit = e[1], !.peer = e[2],
                                  !.valid = e[3]],
                   ReceiveRewardAccumulationStep(e[1], e[2], e[3], propOk, keyOk))
       /\ delivered' =
             MapPut(delivered, e,
                    IF e \notin DOMAIN delivered THEN 1
                    ELSE IF delivered[e] < RepeatCap THEN delivered[e] + 1
                    ELSE RepeatCap)
       /\ UNCHANGED <<round_credits, section_vars, event_vars>>

DeliverProposal ==
    \E peer \in Peers, valid \in BOOLEAN :
       /\ Returned("ReceiveRewardProposal", [NoArgs EXCEPT !.peer = peer],
                   ReceiveRewardProposalStep(peer, valid))
       /\ UNCHANGED <<feed_vars, section_vars, event_vars>>

FeedNext ==
    \/ DeliverAccumulation
    \/ DeliverProposal

FeedSpec == FeedInit /\ [][FeedNext]_vars

\* ---------------------------------------------------------------- section
\* A section of MaxPeers + 1 Elders.  Each Elder is a Node of its own, in
\* SectionFunds::Churning for the same single pending credit; the churn
\* messages between them are delivered one at a time, in any order, each by
\* a call of handle on the receiving Elder.  A Send duty a call returns
\* waits in the Elder's outbox until the Elder handles it, in a call of its
\* own: handle(NodeDuty::Send), which puts the message on the network or
\* fails.
Elders == 1..(MaxPeers + 1)

\* the peer number under which Elder e knows Elder q
PeerIndex(e, q) == Cardinality({x \in Elders \ {e} : x <= q})

Msg(kind, from, to, credit, amount) ==
    [kind |-> kind, from |-> from, to |-> to, credit |-> credit, amount |-> amount]

\* the fields of an Elder that began the round for one credit; proposed is
\* the split it proposed, outbox the messages of the Send duties returned to
\* it and not handled yet, submitted the peers it sent its accumulation to
ElderChurning(credit, amount) ==
    [chunks |-> ChunksAbsent, meta_data |-> TRUE, transfers |-> TRUE,
     section_funds |-> Churning(RewardProcessNew({credit}), EmptyMap, EmptyMap),
     proposed |-> [credit |-> credit, amount |-> amount],
     outbox |-> {},
     submitted |-> {}]

SectionInit ==
    /\ chunks = ChunksNew
    /\ meta_data = FALSE
    /\ transfers = FALSE
    /\ section_funds = FundsAbsent
    /\ emitted = [c \in CreditIds |-> 0]
    /\ last = NoCall
    /\ NoFeed
    /\ \E a \in Amounts :
          /\ elders = [e \in Elders |-> ElderChurning(1, a)]
          /\ net = {Msg("RewardProposal", e, q, 1, a) :
                       e \in Elders, q \in Elders} \
                   {Msg("RewardProposal", e, e, 1, a) : e \in Elders}
    /\ paid = [e \in Elders |-> <<>>]
    /\ NoEvents

\* evidence matches when it names the credit and the amount the receiver
\* proposed itself
Matching(e, m) ==
    /\ m.credit = elders[e].proposed.credit
    /\ m.amount = elders[e].proposed.amount

\* the accumulation messages of the Send duties a call returned to Elder e
Accumulations(e, q, ops) ==
    {Msg("RewardAccumulation", e, q, elders[e].proposed.credit,
         elders[e].proposed.amount) :
        i \in {j \in DOMAIN ops : ops[j].kind = "RewardAccumulation"}}

\* the proofs an Elder propagates for the duties a call returned
Proofs(e, ops) ==
    [i \in 1..Cardinality({j \in DOMAIN ops : ops[j].kind = "PropagateCredit"}) |->
        elders[e].proposed]

ElderReceivesProposal ==
    \E m \in {x \in net : x.kind = "RewardProposal"} :
       LET out == ReceiveRewardProposalOn(elders[m.to], PeerIndex(m.to, m.from),
                                          Matching(m.to, m))
           acc == Accumulations(m.to, m.from, out.res.ops)
       IN  /\ elders' = [elders EXCEPT ![m.to] =
                            [out.self EXCEPT !.outbox = @ \cup acc]]
           /\ net' = net \ {m}
           /\ UNCHANGED <<paid, node_vars, feed_vars, event_vars>>

\* the Send branch of handle on a node with fields s: send(msg, network_api)
\* is awaited and its error returned with ?; no field is touched
SendOn(s, ok) == IF ok THEN Out(s, Ok(<<>>)) ELSE Out(s, Err("Collaborator"))

\* an Elder handles one of the Send duties returned to it: the message is
\* on the network when send returned Ok, and on no network when it failed
ElderSends ==
    \E e \in Elders :
    \E m \in elders[e].outbox, ok \in BOOLEAN :
       LET out == SendOn(elders[e], ok)
       IN  /\ elders' = [elders EXCEPT ![e] =
                            [out.self EXCEPT
                                !.outbox = @ \ {m},
                                !.submitted = IF out.res.ok THEN @ \cup {m.to}
                                              ELSE @]]
           /\ net' = IF out.res.ok THEN net \cup {m} ELSE net
           /\ UNCHANGED <<paid, node_vars, feed_vars, event_vars>>

ElderReceivesAccumulation ==
    \E m \in {x \in net : x.kind = "RewardAccumulation"} :
    \E propOk \in (IF CompletesOn(elders[m.to], m.credit, PeerIndex(m.to, m.from),
                                  Matching(m.to, m))
                   THEN BOOLEAN ELSE {TRUE}) :
    \E keyOk \in (IF CompletesOn(elders[m.to], m.credit, PeerIndex(m.to, m.from),
                                 Matching(m.to, m)) /\ propOk
                  THEN BOOLEAN ELSE {TRUE}) :
       LET out == ReceiveRewardAccumulationOn(elders[m.to], m.credit,
                                              PeerIndex(m.to, m.from),
                                              Matching(m.to, m), propOk, keyOk)
       IN  /\ elders' = [elders EXCEPT ![m.to] = out.self]
           /\ paid' = [paid EXCEPT ![m.to] = @ \o Proofs(m.to, out.res.ops)]
           /\ net' = net \ {m}
           /\ UNCHANGED <<node_vars, feed_vars, event_vars>>

SectionNext ==
    \/ ElderReceivesProposal
    \/ ElderSends
    \/ ElderReceivesAccumulation

SectionSpec == SectionInit /\ [][SectionNext]_vars

\* ---------------------------------------------------------------- network events
\* NetworkEvents::process_network_event in
\* src/node/node_duties/network_events.rs: one routing event in, at most one
\* NodeOperation out.  The events wait in inbox and are translated in order;
\* translated logs each event with the age network.age() had and the
\* Option<NodeOperation> returned.
MIN_AGE == 4

\* the ages network.age() can report for this node, from below MIN_AGE up
OwnAges == (MIN_AGE - 1)..(MIN_AGE + MaxAges)

NoEvent == [kind |-> "", name |-> 0, previous_name |-> 0, age |-> 0,
            startup_relocation |-> FALSE, key |-> 0, prefix |-> 0,
            elders |-> {}, decodable |-> FALSE]

\* RoutingEvent; previous_name = 0 is Option::None
RoutingEvents ==
    {[NoEvent EXCEPT !.kind = k] :
        k \in {"PromotedToElder", "Relocated", "Demoted", "Other"}}
    \cup {[NoEvent EXCEPT !.kind = "MemberLeft", !.name = n, !.age = a] :
             n \in Nodes, a \in Ages}
    \cup {[NoEvent EXCEPT !.kind = "MemberJoined", !.name = e[1],
                          !.previous_name = e[2], !.age = e[3],
                          !.startup_relocation = e[4]] :
             e \in {x \in Nodes \X (Nodes \cup {0}) \X Ages \X BOOLEAN :
                       x[1] # x[2]}}
    \cup {[NoEvent EXCEPT !.kind = "MessageReceived", !.decodable = d] :
             d \in BOOLEAN}
    \cup {[NoEvent EXCEPT !.kind = "EldersChanged", !.key = e[1], !.prefix = e[2],
                          !.elders = e[3]] :
             e \in Keys \X Prefixes \X (SUBSET Nodes)}

\* Option::None of the returned Option<NodeOperation>
NoOperation == [op |-> "None", name |-> 0, old |-> 0, age |-> 0, key |-> 0,
                prefix |-> 0, elders |-> {}]

ProcessLostMember(name, age) ==
    [NoOperation EXCEPT !.op = "ProcessLostMember", !.name = name, !.age = age]

ProcessNewMember(name) ==
    [NoOperation EXCEPT !.op = "ProcessNewMember", !.name = name]

ProcessRelocatedMember(old_node_id, new_node_id, age) ==
    [NoOperation EXCEPT !.op = "ProcessRelocatedMember", !.old = old_node_id,
                        !.name = new_node_id, !.age = age]

ProcessElderChange(prefix, key, elders_) ==
    [NoOperation EXCEPT !.op = "ProcessElderChange", !.prefix = prefix,
                        !.key = key, !.elders = elders_]

\* DutyConfig::setup_as_elder / setup_as_adult: the operation that sets the
\* node up, or None; some is which of the two the call returned
setup_as_elder(some) ==
    IF some THEN [NoOperation EXCEPT !.op = "SetupAsElder"] ELSE NoOperation

setup_as_adult(some) ==
    IF some THEN [NoOperation EXCEPT !.op = "SetupAsAdult"] ELSE NoOperation

\* evaluate_msg: an undecodable payload is dropped, a decoded envelope goes
\* to NetworkMsgAnalysis::evaluate, which returns an operation or None
evaluate_msg(decodable, some) ==
    IF decodable /\ some THEN [NoOperation EXCEPT !.op = "MsgOperation"]
    ELSE NoOperation

\* the match of process_network_event.  age is network.age(), read by the
\* Relocated and Demoted arms only; some is the result of the one
\* collaborator call the arm makes
process_network_event(event, age, some) ==
    CASE event.kind = "PromotedToElder" -> setup_as_elder(some)
      [] event.kind = "MemberLeft" -> ProcessLostMember(event.name, event.age)
      [] event.kind = "MemberJoined" ->
            IF event.startup_relocation THEN ProcessNewMember(event.name)
            ELSE IF event.previous_name # 0
            THEN ProcessRelocatedMember(event.previous_name, event.name, event.age)
            ELSE NoOperation
      [] event.kind = "MessageReceived" -> evaluate_msg(event.decodable, some)
      [] event.kind = "EldersChanged" ->
            ProcessElderChange(event.prefix, event.key, event.elders)
      [] event.kind \in {"Relocated", "Demoted"} ->
            IF age > MIN_AGE THEN setup_as_adult(some) ELSE NoOperation
      [] OTHER -> NoOperation

\* a node (an Adult, as constructed) with up to MaxEvents routing events
\* waiting
EventInit ==
    /\ chunks = ChunksNew
    /\ meta_data = FALSE
    /\ transfers = FALSE
    /\ section_funds = FundsAbsent
    /\ emitted = [c \in CreditIds |-> 0]
    /\ last = NoCall
    /\ NoFeed
    /\ NoSection
    /\ inbox \in UNION {[1..n -> RoutingEvents] : n \in 1..MaxEvents}
    /\ translated = <<>>

\* one call of process_network_event on the event at the head of inbox
Translated(age, some) ==
    /\ translated' =
          Append(translated,
                 [event |-> Head(inbox), age |-> age,
                  op |-> process_network_event(Head(inbox), age, some)])
    /\ inbox' = Tail(inbox)
    /\ UNCHANGED <<node_vars, feed_vars, section_vars>>

Waiting(kinds) == inbox # <<>> /\ Head(inbox).kind \in kinds

OnPromotedToElder ==
    /\ Waiting({"PromotedToElder"})
    /\ \E age \in OwnAges, some \in BOOLEAN : Translated(age, some)

OnMemberLeft ==
    /\ Waiting({"MemberLeft"})
    /\ \E age \in OwnAges : Translated(age, TRUE)

OnMemberJoined ==
    /\ Waiting({"MemberJoined"})
    /\ \E age \in OwnAges : Translated(age, TRUE)

OnMessageReceived ==
    /\ Waiting({"MessageReceived"})
    /\ \E age \in OwnAges :
       \E some \in (IF Head(inbox).decodable THEN BOOLEAN ELSE {FALSE}) :
          Translated(age, some)

OnEldersChanged ==
    /\ Waiting({"EldersChanged"})
    /\ \E age \in OwnAges : Translated(age, TRUE)

OnRelocated ==
    /\ Waiting({"Relocated"})
    /\ \E age \in OwnAges :
       \E some \in (IF age > MIN_AGE THEN BOOLEAN ELSE {FALSE}) :
          Translated(age, some)

OnDemoted ==
    /\ Waiting({"Demoted"})
    /\ \E age \in OwnAges :
       \E some \in (IF age > MIN_AGE THEN BOOLEAN ELSE {FALSE}) :
          Translated(age, some)

OnOtherEvent ==
    /\ Waiting({"Other"})
    /\ \E age \in OwnAges : Translated(age, FALSE)

EventNext ==
    \/ OnPromotedToElder
    \/ OnMemberLeft
    \/ OnMemberJoined
    \/ OnMessageReceived
    \/ OnEldersChanged
    \/ OnRelocated
    \/ OnDemoted
    \/ OnOtherEvent

EventSpec == EventInit /\ [][EventNext]_vars

\* ---------------------------------------------------------------- roles
IsAdult ==
    /\ chunks.present
    /\ ~meta_data /\ ~transfers /\ section_funds.kind = "None"

IsElder ==
    /\ ~chunks.present
    /\ meta_data /\ transfers /\ section_funds.kind # "None"

RewardDuties ==
    {"ReceiveRewardProposal", "ReceiveRewardAccumulation", "SetNodeWallet",
     "GetNodeWalletKey", "ProcessLostMember", "AddPayment"}

MetadataDuties == {"ProcessRead", "ProcessWrite"}

ChunkDuties ==
    {"ReadChunk", "WriteChunk", "ReplicateChunk", "GetChunkForReplication",
     "StoreChunkForReplication"}

RoleMismatch == {"NoSectionFunds", "NotChurningFunds", "NoMetadata", "NoTransfers"}

\* C1: after every completed call of handle the node is an Adult (chunks
\* present, the other three absent) or an Elder (chunks absent, the other
\* three present).  The code breaks it: a LevelDown on an Elder whose
\* Chunks::new fails returns Err with all four subsystems absent.
C1_RoleInvariantAtRest == IsAdult \/ IsElder

\* C2: right after a LevelDown that returned Ok, every reward, metadata and
\* transfer duty fails with a role-mismatch error.  The code breaks it:
\* ReceiveRewardProposal and ReceiveRewardAccumulation turn the
\* NotChurningFunds error of get_churning_funds into Ok with no duty, and
\* GetNodeWalletKey returns Ok with no duty without asking for any subsystem.
C2_AllFailAfterLevelDown ==
    (last.after_level_down
     /\ last.duty \in RewardDuties \cup MetadataDuties \cup TransferDuties)
    => (~last.res.ok /\ last.res.err \in RoleMismatch)

\* C3 as claimed: with the chunk store absent every chunk duty fails with
\* NoChunks, whatever the address and the correlation id.
C3_AllChunkDutiesFail ==
    (~chunks.present /\ last.duty \in ChunkDuties) => last.res = Err("NoChunks")

\* C3 as amended: with the chunk store absent, WriteChunk, ReplicateChunk and
\* GetChunkForReplication fail with NoChunks; ReadChunk fails with NoChunks
\* when the address is under our prefix and otherwise returns the one
\* forwarding Send; StoreChunkForReplication fails with NoChunks when the
\* correlation id equals the combined id and otherwise returns Ok with no duty.
C3_ChunkDutiesOnElder ==
    ~chunks.present =>
        /\ last.duty \in {"WriteChunk", "ReplicateChunk", "GetChunkForReplication"}
              => last.res = Err("NoChunks")
        /\ last.duty = "ReadChunk"
              => last.res = IF last.args.matches THEN Err("NoChunks")
                            ELSE Ok(<<forward("NodeQuery::Chunks",
                                              last.args.id, last.args.addr)>>)
        /\ last.duty = "StoreChunkForReplication"
              => last.res =
                    IF last.args.corr = Combine(<<last.args.addr, last.args.our_name>>)
                    THEN Err("NoChunks") ELSE Ok(<<>>)

\* C3 witness: an Elder handled a ReadChunk of an address under its prefix and
\* returned NoChunks
C3_Witness ==
    /\ IsElder
    /\ last.duty = "ReadChunk" /\ last.args.matches
    /\ last.res = Err("NoChunks")

\* ---------------------------------------------------------------- churn claims
\* a call of handle(ReceiveRewardAccumulation) on SectionFunds::Churning
AccumulationOnChurning ==
    /\ section_funds.kind = "Churning"
    /\ last'.duty = "ReceiveRewardAccumulation"

\* the call left the churn process in stage Completed (a KeepingNodeWallets
\* after the call was written by the Completed branch)
StageCompletedAfter ==
    \/ section_funds'.kind = "KeepingNodeWallets"
    \/ /\ section_funds'.kind = "Churning"
       /\ section_funds'.process.stage = "Completed"

HasPropagate(ops) == \E i \in DOMAIN ops : ops[i].kind = "PropagateCredit"

\* C4: whenever handling ReceiveRewardAccumulation leaves the churn process in
\* stage Completed, SectionFunds afterwards is KeepingNodeWallets with exactly
\* the wallets and payments Churning held before the call.  The code breaks
\* it: when propagate_credits returns Err the call ends before the
\* replacement, SectionFunds stays Churning around a Completed process.
C4_NoDataLossAcrossSwitch ==
    [][(AccumulationOnChurning /\ StageCompletedAfter)
       => section_funds' = KeepingNodeWallets(section_funds.wallets,
                                              section_funds.payments)]_vars

\* C5: in every outcome of a ReceiveRewardAccumulation call the mode is
\* switched exactly when the propagate-credit duties are returned.  The code
\* breaks it: section_public_key is awaited with ? after the replacement, so
\* its Err leaves KeepingNodeWallets and returns no duty.
C5_SwitchAndEmitAtomic ==
    [][AccumulationOnChurning
       => ((section_funds'.kind = "KeepingNodeWallets")
           <=> (last'.res.ok /\ HasPropagate(last'.res.ops)))]_vars

\* C6: over any sequence of duties the propagate-credit duty of a CreditId is
\* returned at most once per churn round, and once funds are
\* KeepingNodeWallets an accumulation returns no duty and changes nothing.
C6_NoCreditPaidTwice ==
    [][/\ \A c \in CreditIds : emitted'[c] <= 1
       /\ (section_funds.kind = "KeepingNodeWallets"
           /\ last'.duty = "ReceiveRewardAccumulation")
          => /\ last'.res = Ok(<<>>)
             /\ UNCHANGED <<chunks, meta_data, transfers, section_funds, emitted>>
      ]_vars

\* C6 witness: a round paid both of its credits once and a later accumulation
\* was answered with no duty
C6_Witness ==
    /\ \A c \in CreditIds : emitted[c] = 1
    /\ section_funds.kind = "KeepingNodeWallets"
    /\ last.duty = "ReceiveRewardAccumulation"
    /\ last.res = Ok(<<>>)

\* C16: every ReceiveRewardAccumulation that reaches Completed (its evidence
\* is accepted and the merge leaves the stage Completed) returns first the
\* duty of receive_wallet_accumulation and then exactly one propagate-credit
\* duty per CreditId of the Completed stage, and nothing else; an
\* accumulation short of Completed returns no propagate-credit duty.  The
\* code breaks it: in the Completed branch the error of propagate_credits
\* and the error of section_public_key are returned with ?, and the call
\* that reached Completed returns no propagate-credit duty at all.
C16_OnePropagatePerProof ==
    [][last'.duty = "ReceiveRewardAccumulation"
       => IF Completes(last'.args.credit, last'.args.peer, last'.args.valid)
          THEN /\ Len(last'.res.ops) = 1 + Cardinality(section_funds.process.credits)
               /\ last'.res.ops[1] = Op("NoOp", "Accumulated", last'.args.credit,
                                        last'.args.peer)
               /\ \A i \in 2..Len(last'.res.ops) :
                     /\ last'.res.ops[i].kind = "PropagateCredit"
                     /\ last'.res.ops[i].id \in section_funds.process.credits
               /\ \A c \in section_funds.process.credits :
                     Propagated(last'.res.ops, c) = 1
          ELSE ~HasPropagate(last'.res.ops)
      ]_vars

\* ---------------------------------------------------------------- chunk claims
\* C7: a StoreChunkForReplication whose correlation id differs from
\* MessageId::combine(address name, our name) leaves the chunk store unchanged
\* and returns no duty; the store changes only when the ids are equal.
C7_StaleCorrelationRejected ==
    [][last'.duty = "StoreChunkForReplication"
       => /\ last'.args.corr # Combine(<<last'.args.addr, last'.args.our_name>>)
               => (chunks' = chunks /\ last'.res = Ok(<<>>))
          /\ chunks' # chunks
               => /\ last'.args.corr = Combine(<<last'.args.addr, last'.args.our_name>>)
                  /\ chunks'.store = chunks.store \cup {last'.args.addr}
      ]_vars

\* C7 witness: an Adult received a chunk under the id combined for another
\* node name and stored nothing
C7_Witness ==
    /\ IsAdult
    /\ last.duty = "StoreChunkForReplication"
    /\ last.args.corr # 0
    /\ last.args.corr # Combine(<<last.args.addr, last.args.our_name>>)
    /\ last.args.addr \notin chunks.store
    /\ last.res = Ok(<<>>)

\* ---------------------------------------------------------------- wallet claims
\* C8: a SetNodeWallet for a node id that live membership does not list fails
\* and leaves the wallet registry (all of SectionFunds) unchanged; where the
\* registry exists the error is NodeNotFoundForReward.
C8_UnknownNodeRejected ==
    [][(last'.duty = "SetNodeWallet"
        /\ last'.args.node \notin DOMAIN last'.args.members)
       => /\ ~last'.res.ok
          /\ section_funds' = section_funds
          /\ section_funds.kind # "None"
               => last'.res = Err("NodeNotFoundForReward")
      ]_vars

\* C8 witness: an Elder holding a wallet entry refused a wallet for a node
\* that is not a member
C8_Witness ==
    /\ IsElder
    /\ last.duty = "SetNodeWallet"
    /\ last.args.node \notin DOMAIN last.args.members
    /\ last.args.members # EmptyMap
    /\ section_funds.wallets # EmptyMap
    /\ last.res = Err("NodeNotFoundForReward")

\* C9: a wallet entry is created or changed only by a SetNodeWallet for a node
\* live membership lists, and a SetNodeWallet that returns Ok leaves for its
\* node the entry (wallet of the duty, age live membership reports).
C9_AgeFromLiveMembership ==
    [][/\ \A n \in DOMAIN section_funds'.wallets :
             (n \notin DOMAIN section_funds.wallets
              \/ section_funds'.wallets[n] # section_funds.wallets[n])
             => /\ last'.duty = "SetNodeWallet"
                /\ last'.args.node = n
                /\ n \in DOMAIN last'.args.members
                /\ section_funds'.wallets[n].age = last'.args.members[n]
       /\ (last'.duty = "SetNodeWallet" /\ last'.res.ok)
             => /\ last'.args.node \in DOMAIN last'.args.members
                /\ last'.args.node \in DOMAIN section_funds'.wallets
                /\ section_funds'.wallets[last'.args.node] =
                      [wallet |-> last'.args.wallet,
                       age |-> last'.args.members[last'.args.node]]
      ]_vars

\* C9 witness: a SetNodeWallet overwrote the entry of a node, which now holds
\* the age membership reported, beside the entry of another node
C9_Witness ==
    /\ last.duty = "SetNodeWallet" /\ last.res.ok
    /\ last.had_wallet
    /\ Cardinality(DOMAIN section_funds.wallets) = 2
    /\ section_funds.wallets[last.args.node].age = last.args.members[last.args.node]
    /\ \E m \in DOMAIN section_funds.wallets :
          section_funds.wallets[m].age # section_funds.wallets[last.args.node].age

\* C10: on an Elder a ProcessLostMember{name: N} that returns Ok removes N's
\* wallet entry, leaves every other entry and the rest of the node unchanged,
\* and returns one replication duty per address the metadata store reports
\* for N, and nothing else.
C10_LostMemberRemoved ==
    [][(IsElder /\ last'.duty = "ProcessLostMember" /\ last'.res.ok)
       => /\ last'.args.node \notin DOMAIN section_funds'.wallets
          /\ DOMAIN section_funds'.wallets =
                (DOMAIN section_funds.wallets) \ {last'.args.node}
          /\ \A m \in DOMAIN section_funds'.wallets :
                section_funds'.wallets[m] = section_funds.wallets[m]
          /\ section_funds'.payments = section_funds.payments
          /\ section_funds'.kind = section_funds.kind
          /\ section_funds'.process = section_funds.process
          /\ UNCHANGED <<chunks, meta_data, transfers>>
          /\ Len(last'.res.ops) = Cardinality(last'.args.collab)
          /\ \A a \in last'.args.collab :
                \E i \in DOMAIN last'.res.ops :
                   last'.res.ops[i] =
                      Op("SendToNodes", "ReplicateChunk", a, last'.args.node)
      ]_vars

\* C10 witness: an Elder removed the wallet entry of a lost member, kept the
\* entry of the other node and returned replication duties
C10_Witness ==
    /\ IsElder
    /\ last.duty = "ProcessLostMember" /\ last.res.ok
    /\ last.had_wallet
    /\ last.args.node \notin DOMAIN section_funds.wallets
    /\ section_funds.wallets # EmptyMap
    /\ Len(last.res.ops) = 2

\* C11: a ProcessLostMember that returns an error leaves the wallet registry
\* as it was before the call.  The code breaks it: remove_node_wallet runs
\* before get_metadata()? and before trigger_chunk_replication(..).await?, so
\* an Err of the replication trigger is returned with the entry already gone.
C11_LostMemberAllOrNothing ==
    [][(last'.duty = "ProcessLostMember" /\ ~last'.res.ok)
       => section_funds'.wallets = section_funds.wallets]_vars

\* ---------------------------------------------------------------- forwarding
AddressScoped == {"ReadChunk", "WriteChunk", "ProcessRead", "ProcessWrite"}

\* the message kinds of a duty forwarded to the section of its address
ForwardKinds ==
    {"NodeQuery::Chunks", "NodeQuery::Metadata", "NodeCmd::Chunks",
     "NodeCmd::Metadata"}

\* C15: ReadChunk, WriteChunk, ProcessRead and ProcessWrite of an address our
\* prefix does not match are not executed locally: the call returns exactly
\* one Send addressed to the section of the address.  The code breaks it:
\* WriteChunk and ProcessWrite never consult the prefix; they write locally,
\* or fail with NoChunks / NoMetadata, whatever the address.
C15_AddressScopedForward ==
    (last.duty \in AddressScoped /\ ~last.args.matches)
    => /\ last.res.ok
       /\ Len(last.res.ops) = 1
       /\ last.res.ops[1].duty = "Send"
       /\ last.res.ops[1].kind \in ForwardKinds
       /\ last.res.ops[1].dst = last.args.addr

\* ---------------------------------------------------------------- transition claims
\* the call just made is a role transition: a promotion, a demotion or a split
RoleTransition ==
    \/ last'.duty \in {"Genesis", "LevelDown", "SectionSplit"}
    \/ last'.duty = "EldersChanged" /\ last'.args.newbie

\* a churn round is open: Churning around a process that is not Completed
OpenRound ==
    /\ section_funds.kind = "Churning"
    /\ section_funds.process.stage # "Completed"

\* the call just made is an accumulation on Churning funds whose evidence
\* was accepted and whose merge leaves the stage Completed: the call that
\* enters the Completed branch
MergeCompletes ==
    /\ last'.duty = "ReceiveRewardAccumulation"
    /\ Completes(last'.args.credit, last'.args.peer, last'.args.valid)

\* C17: SectionFunds goes from Churning to KeepingNodeWallets, outside a role
\* transition, only in a ReceiveRewardAccumulation whose merge leaves the
\* stage Completed; a ReceiveRewardProposal keeps the variant, the wallets
\* and the payments, returns no propagate-credit duty and never makes the
\* stage Completed; only role transitions and accumulations change the
\* variant, so Churning short of quorum stays Churning until a role
\* transition.
C17_SwitchOnlyOnCompletion ==
    [][/\ (section_funds.kind = "Churning"
           /\ section_funds'.kind = "KeepingNodeWallets" /\ ~RoleTransition)
          => MergeCompletes
       /\ last'.duty = "ReceiveRewardProposal"
          => /\ section_funds'.kind = section_funds.kind
             /\ section_funds'.wallets = section_funds.wallets
             /\ section_funds'.payments = section_funds.payments
             /\ ~HasPropagate(last'.res.ops)
             /\ section_funds'.process.stage = "Completed"
                   => section_funds.process.stage = "Completed"
       /\ section_funds'.kind # section_funds.kind
          => (RoleTransition \/ last'.duty = "ReceiveRewardAccumulation")
       /\ (section_funds.kind = "Churning" /\ ~RoleTransition /\ ~MergeCompletes)
          => section_funds'.kind = "Churning"
      ]_vars

\* C17 witness: a proposal completed the quorum of proposals of a round that
\* holds a pending payment; the funds are still Churning, now Accumulating
C17_Witness ==
    /\ last.duty = "ReceiveRewardProposal" /\ last.res.ok
    /\ section_funds.kind = "Churning"
    /\ section_funds.process.stage = "Accumulating"
    /\ section_funds.process.evidence = {}
    /\ section_funds.payments # EmptyMap

\* C18: LevelDown leaves no section funds, whatever the round they held and
\* whatever Chunks::new returns; a promotion or split that succeeds leaves
\* no evidence of an earlier round; while the funds are absent every
\* ReceiveRewardProposal / ReceiveRewardAccumulation returns Ok with no
\* duty and changes nothing; a duty that is no role transition keeps an open
\* round, its CreditIds and its evidence, unless it is the accumulation
\* that completes it.
C18_CancellationByRoleTransition ==
    [][/\ last'.duty = "LevelDown" => section_funds' = FundsAbsent
       /\ (RoleTransition /\ last'.res.ok)
          => /\ section_funds'.process.evidence = {}
             /\ section_funds'.process.proposals = {}
             /\ section_funds'.process.stage \in {"None", "AwaitingProposals"}
       /\ (section_funds.kind = "None"
           /\ last'.duty \in {"ReceiveRewardProposal", "ReceiveRewardAccumulation"})
          => /\ last'.res = Ok(<<>>)
             /\ UNCHANGED <<chunks, meta_data, transfers, section_funds, emitted>>
       /\ (OpenRound /\ ~RoleTransition /\ ~MergeCompletes)
          => /\ section_funds'.kind = "Churning"
             /\ section_funds'.process.stage # "Completed"
             /\ section_funds'.process.credits = section_funds.process.credits
             /\ section_funds.process.evidence \subseteq section_funds'.process.evidence
      ]_vars

\* C18 witness: a LevelDown discarded a round that held evidence
C18_Witness ==
    /\ last.duty = "LevelDown" /\ last.res.ok
    /\ last.had_evidence
    /\ IsAdult

\* C19: a SectionSplit on the oldie side that succeeds while the funds are
\* Churning leaves Churning around a new process in AwaitingProposals with
\* no proposals and no evidence, with the wallets and the pending payments
\* of before the split; one that fails leaves the funds as they were; a
\* SectionSplit on the newbie side returns no duty.
C19_SplitSupersedesRound ==
    [][last'.duty = "SectionSplit"
       => IF last'.args.newbie
          THEN last'.res.ops = <<>>
          ELSE IF last'.res.ok
          THEN section_funds.kind = "Churning"
               => /\ section_funds'.kind = "Churning"
                  /\ section_funds'.process.stage = "AwaitingProposals"
                  /\ section_funds'.process.proposals = {}
                  /\ section_funds'.process.evidence = {}
                  /\ section_funds'.payments = section_funds.payments
                  /\ section_funds'.wallets = section_funds.wallets
          ELSE section_funds' = section_funds
      ]_vars

\* C19 witness: the oldie side of a split replaced a round that held
\* evidence and kept the pending payment
C19_Witness ==
    /\ last.duty = "SectionSplit" /\ ~last.args.newbie /\ last.res.ok
    /\ last.had_evidence
    /\ section_funds.kind = "Churning"
    /\ section_funds.process.evidence = {}
    /\ section_funds.payments # EmptyMap

\* C20: an EldersChanged with newbie = false changes none of the node's
\* fields and, when it returns Ok, returns exactly one push-state duty, to
\* our prefix, whose message id is combine(name of our_prefix, name of
\* our_key): a function of the pair alone; with newbie = true it returns no
\* duty and, when it returns Ok, leaves the node an Elder.
C20_PushStateIdDeterministic ==
    [][last'.duty = "EldersChanged"
       => IF last'.args.newbie
          THEN /\ last'.res.ops = <<>>
               /\ last'.res.ok => IsElder'
          ELSE /\ UNCHANGED <<chunks, meta_data, transfers, section_funds>>
               /\ IsElder => IsElder'
               /\ last'.res.ok
                     => /\ Len(last'.res.ops) = 1
                        /\ last'.res.ops[1].kind = "PushState"
                        /\ last'.res.ops[1].dst = last'.args.prefix
                        /\ last'.res.ops[1].id =
                              Combine(<<PrefixName(last'.args.prefix),
                                        KeyName(last'.args.key)>>)
      ]_vars

\* C20 witness: an Elder in a churn round handled EldersChanged with
\* newbie = false for the second prefix and the second key and returned the
\* one push-state duty
C20_Witness ==
    /\ last.duty = "EldersChanged" /\ ~last.args.newbie /\ last.res.ok
    /\ last.args.prefix = MaxPrefixes /\ last.args.key = MaxKeys
    /\ IsElder
    /\ Len(last.res.ops) = 1
    /\ last.res.ops[1].kind = "PushState"

\* ---------------------------------------------------------------- feed claims
\* the RewardStage the fed round is in: the handler replaces Churning by
\* KeepingNodeWallets only in the Completed branch
FeedStage ==
    IF section_funds.kind = "Churning" THEN section_funds.process.stage
    ELSE "Completed"

\* the accepted evidence delivered so far, by CreditId and peer
Accepted == ValidOf(DOMAIN delivered)

\* C12: whatever the order (and repetition) in which a set of evidence was
\* delivered to a churn process through ReceiveRewardAccumulation, the stage
\* is a function of the set alone: Completed exactly when every CreditId of
\* the round has quorum among the accepted evidence delivered, with the
\* round's CreditIds as proofs, and otherwise holding exactly the accepted
\* evidence of the round's CreditIds.
C12_OrderIndependent ==
    /\ (FeedStage = "Completed") <=> Agreed(round_credits, Accepted)
    /\ section_funds.kind = "Churning"
          => section_funds.process.credits = round_credits
    /\ FeedStage # "Completed"
          => section_funds.process.evidence =
                {v \in Accepted : v[1] \in round_credits}
    /\ (last.duty = "ReceiveRewardAccumulation" /\ HasPropagate(last.res.ops))
          => \A c \in CreditIds :
                Propagated(last.res.ops, c) = IF c \in round_credits THEN 1 ELSE 0

\* C12 witness: a round of two credits completed on evidence for the first
\* credit, after the evidence of the second and rejected evidence
C12_Witness ==
    /\ round_credits = CreditIds
    /\ FeedStage = "Completed"
    /\ last.duty = "ReceiveRewardAccumulation" /\ last.args.credit = 1
    /\ HasPropagate(last.res.ops)
    /\ \E e \in DOMAIN delivered : ~e[3]

\* C13: delivering again a piece of evidence that was delivered before counts
\* nothing: the stage and, while the round is open, the whole process stay
\* as they were; the stage becomes Completed only on a piece delivered for
\* the first time, the one that completes the quorum of the distinct pieces.
C13_DuplicateIdempotent ==
    [][last'.duty = "ReceiveRewardAccumulation"
       => /\ (DOMAIN delivered' = DOMAIN delivered)
               => /\ FeedStage' = FeedStage
                  /\ FeedStage # "Completed" => section_funds' = section_funds
          /\ (FeedStage # "Completed" /\ FeedStage' = "Completed")
               => /\ DOMAIN delivered' # DOMAIN delivered
                  /\ ~Agreed(round_credits, Accepted)
                  /\ Agreed(round_credits, Accepted')
      ]_vars

\* C13 witness: a round still short of quorum after a piece of accepted
\* evidence was delivered twice
C13_Witness ==
    /\ FeedStage = "Accumulating"
    /\ \E e \in DOMAIN delivered :
          e[3] /\ e[1] \in round_credits /\ delivered[e] = RepeatCap
    /\ last.duty = "ReceiveRewardAccumulation"

\* ---------------------------------------------------------------- section claims
\* every Elder sent its accumulation evidence to every peer and every
\* message was delivered
AllSubmittedAndDelivered ==
    /\ elders # EmptyMap
    /\ net = {}
    /\ \A e \in Elders : elders[e].submitted = Elders \ {e}

ElderCompleted(e) ==
    \/ elders[e].section_funds.kind = "KeepingNodeWallets"
    \/ /\ elders[e].section_funds.kind = "Churning"
       /\ elders[e].section_funds.process.stage = "Completed"

\* C14: in a round of three Elders for one pending credit of amount 100,
\* once all three have submitted their matching accumulation evidence and
\* it was delivered, every Elder is Completed and has emitted exactly one
\* propagate-credit duty, for the one proof of value 100.  The code breaks
\* it: an Elder whose propagate_credits or section_public_key fails in the
\* completing call returns Err and emits no propagate-credit duty at all.
C14_ThreeElderRound ==
    AllSubmittedAndDelivered
    => \A e \in Elders :
          /\ ElderCompleted(e)
          /\ paid[e] = <<[credit |-> 1, amount |-> 100]>>

\* ---------------------------------------------------------------- event claims
\* C21: the node's current age wins over a promotion or demotion signal: a
\* PromotedToElder translated while the age does not exceed MIN_AGE yields
\* no operation, and Relocated / Demoted yield the set-up-as-Adult operation
\* only while the age exceeds MIN_AGE and nothing otherwise.  The code
\* breaks it: the PromotedToElder arm never reads the age and returns what
\* setup_as_elder returns.
C21_StateWinsOverEvent ==
    \A i \in DOMAIN translated :
       /\ (translated[i].event.kind = "PromotedToElder"
           /\ translated[i].age <= MIN_AGE)
          => translated[i].op = NoOperation
       /\ translated[i].event.kind \in {"Relocated", "Demoted"}
          => /\ translated[i].op # NoOperation
                   => /\ translated[i].age > MIN_AGE
                      /\ translated[i].op = setup_as_adult(TRUE)
             /\ translated[i].age <= MIN_AGE => translated[i].op = NoOperation

\* C22: every MemberJoined yields exactly one duty, ProcessRelocatedMember
\* (old id, new id, age) when a previous name is attached and
\* ProcessNewMember when none is; every MemberLeft yields ProcessLostMember
\* with the name and age, every EldersChanged yields ProcessElderChange.
\* The code breaks it: the choice is made on startup_relocation first, and a
\* MemberJoined with neither startup_relocation nor a previous name is
\* dropped.
C22_MemberEventsTranslated ==
    \A i \in DOMAIN translated :
       /\ translated[i].event.kind = "MemberJoined"
          => translated[i].op =
                IF translated[i].event.previous_name # 0
                THEN ProcessRelocatedMember(translated[i].event.previous_name,
                                            translated[i].event.name,
                                            translated[i].event.age)
                ELSE ProcessNewMember(translated[i].event.name)
       /\ translated[i].event.kind = "MemberLeft"
          => translated[i].op = ProcessLostMember(translated[i].event.name,
                                                  translated[i].event.age)
       /\ translated[i].event.kind = "EldersChanged"
          => translated[i].op = ProcessElderChange(translated[i].event.prefix,
                                                   translated[i].event.key,
                                                   translated[i].event.elders)

====
